---- MODULE Spec2Model ----
(***************************************************************************)
(* A model of ppc-simd.h: the capability gate run by the preprocessor, the *)
(* core vector operations (Reverse, the paired byte shifts), the memory    *)
(* access operations of both load/store tiers, and the crypto wrappers.    *)
(*                                                                         *)
(* A vector is a function from its 16 byte elements, numbered in the       *)
(* host's own element order (v[i] in C), to bytes.  The compiler built-ins *)
(* are modelled by their documented behaviour in that numbering; the one   *)
(* built-in that is not endian-adjusted, vec_sld, works on the register    *)
(* image and is modelled through it.                                       *)
(***************************************************************************)
EXTENDS Integers, Sequences, FiniteSets

VARIABLES
    macros,     \* macros defined when the header is included
    avail,      \* the macros left after the capability gate
    symbols,    \* the symbols the header defined
    pc,         \* "cpp" before the include, "ready" after, "trapped" after a fired assertion
    mem,        \* the caller's memory, three aligned 16-byte blocks
    op,         \* the last operation called
    cnt,        \* its byte count C (shifts)
    addr,       \* its address (loads and stores)
    va,         \* its first vector operand
    vb,         \* its second vector operand
    vout,       \* the vector it returned
    ret,        \* how the last crypto call ended, and through which built-in
    prev        \* the operation before it, when the last one continues it

vars == <<macros, avail, symbols, pc, mem, op, cnt, addr, va, vb, vout, ret, prev>>

-----------------------------------------------------------------------------
(* Bounds and sizes *)

\* bytes in a 128-bit vector
VecLen == 16

\* number of distinct input vectors the callers draw from
NumPatterns == 2

\* aligned 16-byte blocks of caller memory around the window
NumBlocks == 3

Lanes == 0 .. (VecLen - 1)

ShiftCounts == 0 .. (VecLen - 1)

ZeroVec == [i \in Lanes |-> 0]

\* input vector k: sixteen distinct non-zero bytes, disjoint from the others
Pattern(k) == [i \in Lanes |-> (VecLen * k + i + 1) % 256]

VecInputs == {Pattern(k) : k \in 0 .. (NumPatterns - 1)}

\* a C initializer list {e0, e1, ...} as a vector
MaskOf(list) == [i \in Lanes |-> list[i + 1]]

-----------------------------------------------------------------------------
(* Compiler built-ins, in the host's element order *)

\* the 32-element concatenation a followed by b
Cat(a, b) == [j \in 0 .. (2 * VecLen - 1) |-> IF j < VecLen THEN a[j] ELSE b[j - VecLen]]

\* vec_perm: element i of the result is element mask[i] (low five bits) of a||b
VecPerm(a, b, mask) == [i \in Lanes |-> Cat(a, b)[mask[i] % (2 * VecLen)]]

\* the register image of a vector: on a little-endian host element i sits in
\* register byte 15-i, on a big-endian host in register byte i
RegImage(v, le) == IF le THEN [i \in Lanes |-> v[(VecLen - 1) - i]] ELSE v

\* vec_sld: the most significant 16 bytes of the register pair a||b shifted
\* left by c bytes; not endian-adjusted by the compilers
VecSld(a, b, c, le) ==
    LET ra == RegImage(a, le)
        rb == RegImage(b, le)
        rr == [i \in Lanes |-> Cat(ra, rb)[i + c]]
    IN  RegImage(rr, le)

RECURSIVE XorBits(_, _, _)
XorBits(x, y, n) ==
    IF n = 0 THEN 0
    ELSE ((x + y) % 2) + 2 * XorBits(x \div 2, y \div 2, n - 1)

\* vec_xor
VecXor(a, b) == [i \in Lanes |-> XorBits(a[i], b[i], 8)]

-----------------------------------------------------------------------------
(* Host byte order *)

LittleEndian(m) == "CRYPTOPP_LITTLE_ENDIAN" \in m

-----------------------------------------------------------------------------
(* Core vector operations *)

ReverseMaskSwapped == MaskOf(<<15,14,13,12, 11,10,9,8, 7,6,5,4, 3,2,0,1>>)

ReverseMask == MaskOf(<<15,14,13,12, 11,10,9,8, 7,6,5,4, 3,2,1,0>>)

Reverse(src) == VecPerm(src, src, ReverseMask)

VectorXor(vec1, vec2) == VecXor(vec1, vec2)

\* VectorShiftLeft<C>(vec1, vec2)
VectorShiftLeft2(C, vec1, vec2, le) ==
    IF ~le
    THEN LET R == C % 16 IN VecSld(vec1, vec2, R, le)
    ELSE LET R == (16 - C) % 16 IN VecSld(vec2, vec1, R, le)

\* VectorShiftLeft<C>(vec)
VectorShiftLeft1(C, vec, le) ==
    IF ~le
    THEN LET R == C % 16
             zero == VectorXor(vec, vec)
         IN  VecSld(vec, zero, R, le)
    ELSE LET R == (16 - C) % 16
             zero == VectorXor(vec, vec)
         IN  VecSld(zero, vec, R, le)

\* VectorShiftRight<C>(vec)
VectorShiftRight1(C, vec, le) ==
    IF ~le
    THEN LET R == C % 16
             zero == VectorXor(vec, vec)
         IN  VecSld(vec, zero, R, le)
    ELSE LET R == (16 - C) % 16
             zero == VectorXor(vec, vec)
         IN  VecSld(zero, vec, R, le)

\* VectorShiftRight<C>(vec1, vec2)
VectorShiftRight2(C, vec1, vec2, le) ==
    IF ~le
    THEN LET R == C % 16 IN VecSld(vec1, vec2, R, le)
    ELSE LET R == (16 - C) % 16 IN VecSld(vec2, vec1, R, le)

-----------------------------------------------------------------------------
(* Memory built-ins.  m is the memory, p a byte address, off a byte offset. *)

IsAlignedOn(p, alignment) == p % alignment = 0

\* the address p + off truncated to a multiple of size
Truncate(p, off, size) == ((p + off) \div size) * size

\* vec_ld (lvx): the aligned 16-byte block holding p + off
VecLd(m, off, p) == [i \in Lanes |-> m[Truncate(p, off, VecLen) + i]]

\* vec_st (stvx): writes the aligned 16-byte block holding p + off
VecSt(m, v, off, p) ==
    LET ea == Truncate(p, off, VecLen)
    IN  [a \in DOMAIN m |-> IF a >= ea /\ a < ea + VecLen THEN v[a - ea] ELSE m[a]]

\* vec_lvsl: the permute control for a left shift by the misalignment
VecLvsl(off, p) == [i \in Lanes |-> ((p + off) % VecLen) + i]

\* vec_lvsr: the permute control for a right shift by the misalignment
VecLvsr(off, p) == [i \in Lanes |-> (VecLen - ((p + off) % VecLen)) + i]

\* the addresses one vec_ste writes: the element of size bytes at the truncated address
SteAddrs(off, p, size) == Truncate(p, off, size) .. (Truncate(p, off, size) + size - 1)

\* vec_ste (stvebx, stvehx, stvewx): writes the one element of size bytes that
\* lies at the truncated address, taken from the same position of the vector
VecSte(m, v, off, p, size) ==
    [a \in DOMAIN m |-> IF a \in SteAddrs(off, p, size) THEN v[a % VecLen] ELSE m[a]]

\* vec_vsx_ld, vec_xl: 16 bytes from p + off, any alignment
VecVsxLd(m, off, p) == [i \in Lanes |-> m[p + off + i]]

\* vec_vsx_st, vec_xst
VecVsxSt(m, v, off, p) ==
    [a \in DOMAIN m |-> IF a >= p + off /\ a < p + off + VecLen THEN v[a - (p + off)] ELSE m[a]]

\* vec_xl_be: the bytes in big-endian order whatever the host
VecXlBe(m, off, p, le) ==
    IF le THEN [i \in Lanes |-> m[p + off + (VecLen - 1) - i]] ELSE VecVsxLd(m, off, p)

\* vec_xst_be
VecXstBe(m, v, off, p, le) ==
    IF le THEN VecVsxSt(m, [i \in Lanes |-> v[(VecLen - 1) - i]], off, p)
    ELSE VecVsxSt(m, v, off, p)

-----------------------------------------------------------------------------
(* Memory access operations, extended tier (POWER7) *)

VectorLoadBEExtended(m, src, xlc, le) ==
    IF xlc THEN VecXlBe(m, 0, src, le)
    ELSE IF le THEN Reverse(VecVsxLd(m, 0, src))
    ELSE VecVsxLd(m, 0, src)

VectorLoadExtended(m, src, xlc) ==
    IF xlc THEN VecVsxLd(m, 0, src) ELSE VecVsxLd(m, 0, src)

VectorStoreBEExtended(m, src, dest, xlc, le) ==
    IF xlc THEN VecXstBe(m, src, 0, dest, le)
    ELSE IF le THEN VecVsxSt(m, Reverse(src), 0, dest)
    ELSE VecVsxSt(m, src, 0, dest)

VectorStoreExtended(m, src, dest, xlc) ==
    IF xlc THEN VecVsxSt(m, src, 0, dest) ELSE VecVsxSt(m, src, 0, dest)

-----------------------------------------------------------------------------
(* Memory access operations, baseline tier (Altivec only) *)

\* the value the body of VectorLoad computes into its local "data"
VectorLoadData(m, src) ==
    IF IsAlignedOn(src, 16)
    THEN VecLd(m, 0, src)
    ELSE LET perm == VecLvsl(0, src)
             low  == VecLd(m, 0, src)
             high == VecLd(m, 15, src)
         IN  VecPerm(low, high, perm)

\* VectorLoad ends without a return statement: the caller reads whatever the
\* return register holds, which may be data, a stale result or anything else
VectorLoadBaseline(m, src, stale) == {VectorLoadData(m, src), stale, ZeroVec}

LoadBEMask == MaskOf(<<15,14,13,12, 11,10,9,8, 7,6,5,4, 3,2,1,0>>)

VectorLoadBEBaseline(m, src, stale, le) ==
    IF ~le
    THEN VectorLoadBaseline(m, src, stale)
    ELSE {VecPerm(data, data, LoadBEMask) : data \in VectorLoadBaseline(m, src, stale)}

StoreMask == MaskOf(<<15,14,13,12, 11,10,9,8, 7,6,5,4, 3,2,1,0>>)

LaneStoresOffByOne ==
    << <<0, 1>>, <<1, 2>>, <<3, 4>>, <<4, 4>>, <<8, 4>>, <<12, 4>>, <<14, 2>>, <<16, 1>> >>

\* the eight lane-partial stores of the unaligned path, in order, each as
\* <<byte offset, lane size>>: char, short, int, int, int, int, short, char
LaneStores ==
    << <<0, 1>>, <<1, 2>>, <<3, 4>>, <<4, 4>>, <<8, 4>>, <<12, 4>>, <<14, 2>>, <<15, 1>> >>

\* memory after the first k of the lane-partial stores
RECURSIVE StoreLanes(_, _, _, _)
StoreLanes(m, t2, dest, k) ==
    IF k = 0 THEN m
    ELSE VecSte(StoreLanes(m, t2, dest, k - 1), t2, LaneStores[k][1], dest, LaneStores[k][2])

PartialStores(m, t2, dest) == StoreLanes(m, t2, dest, Len(LaneStores))

\* every address the lane-partial stores write
PartialStoreAddrs(dest) ==
    UNION {SteAddrs(LaneStores[k][1], dest, LaneStores[k][2]) : k \in 1 .. Len(LaneStores)}

\* t1: the argument in the byte order VectorStore puts it in before storing
StoreOrder(data, le) == IF le THEN VecPerm(data, data, StoreMask) ELSE data

VectorStoreBaseline(m, data, dest, le) ==
    LET t1 == StoreOrder(data, le)
    IN  IF IsAlignedOn(dest, 16)
        THEN VecSt(m, t1, 0, dest)
        ELSE LET t2 == VecPerm(t1, t1, VecLvsr(0, dest))
             IN  PartialStores(m, t2, dest)

StoreBEMask == MaskOf(<<15,14,13,12, 11,10,9,8, 7,6,5,4, 3,2,1,0>>)

VectorStoreBEBaseline(m, src, dest, le) ==
    IF ~le
    THEN VectorStoreBaseline(m, src, dest, le)
    ELSE VectorStoreBaseline(m, VecPerm(src, src, StoreBEMask), dest, le)


-----------------------------------------------------------------------------
(* The capability gate and the conditional definitions of the header *)

RequestMacros ==
    {"CRYPTOPP_ALTIVEC_AVAILABLE", "CRYPTOPP_POWER7_AVAILABLE",
     "CRYPTOPP_POWER8_AVAILABLE", "CRYPTOPP_POWER8_AES_AVAILABLE",
     "CRYPTOPP_POWER8_VMULL_AVAILABLE", "CRYPTOPP_POWER8_SHA_AVAILABLE"}

ArchMacros ==
    {"__ALTIVEC__", "_ARCH_PWR7", "_ARCH_PWR8", "_ARCH_PWR9", "__CRYPTO", "__CRYPTO__"}

ToolchainMacros == {"CRYPTOPP_XLC_VERSION", "CRYPTOPP_GCC_VERSION"}

\* #if !defined(__ALTIVEC__) # undef CRYPTOPP_ALTIVEC_AVAILABLE
GateAltivec(m) ==
    IF "__ALTIVEC__" \notin m THEN m \ {"CRYPTOPP_ALTIVEC_AVAILABLE"} ELSE m

\* #if !defined(_ARCH_PWR7) # undef CRYPTOPP_POWER7_AVAILABLE
GatePower7(m) ==
    IF "_ARCH_PWR7" \notin m THEN m \ {"CRYPTOPP_POWER7_AVAILABLE"} ELSE m

\* #if !(defined(_ARCH_PWR8) || ... ) # undef CRYPTOPP_POWER8_*_AVAILABLE
GatePower8(m) ==
    IF ~("_ARCH_PWR8" \in m \/ "_ARCH_PWR9" \in m \/ "__CRYPTO" \in m \/ "__CRYPTO__" \in m)
    THEN m \ {"CRYPTOPP_POWER8_AVAILABLE", "CRYPTOPP_POWER8_AES_AVAILABLE",
              "CRYPTOPP_POWER8_VMULL_AVAILABLE", "CRYPTOPP_POWER8_SHA_AVAILABLE"}
    ELSE m

\* the three #undef blocks in the order of the header
Gate(m) == GatePower8(GatePower7(GateAltivec(m)))

Doxygen(a) == "CRYPTOPP_DOXYGEN_PROCESSING" \in a

VectorTypes == {"uint8x16_p", "uint16x8_p", "uint32x4_p"}

CoreFunctions ==
    {"Reverse", "VectorPermute", "VectorAnd", "VectorXor", "VectorAdd",
     "VectorShiftLeft", "VectorShiftRight"}

MemFunctions == {"VectorLoad", "VectorLoadBE", "VectorStore", "VectorStoreBE"}

\* the load/store functions of the #if branch (POWER7) and of its #else branch
ExtendedMem == {[name |-> f, tier |-> "extended"] : f \in MemFunctions}

BaselineMem == {[name |-> f, tier |-> "baseline"] : f \in MemFunctions}

AesFunctions == {"VectorEncrypt", "VectorEncryptLast", "VectorDecrypt", "VectorDecryptLast"}

ShaFunctions == {"VectorSHA256", "VectorSHA512"}

CryptoFunctions == AesFunctions \cup ShaFunctions

Plain(names) == {[name |-> f, tier |-> "any"] : f \in names}

\* typedefs: the 64-bit lane type is nested in the ALTIVEC block
TypeSymbols(a) ==
    IF "CRYPTOPP_ALTIVEC_AVAILABLE" \in a \/ Doxygen(a)
    THEN Plain(VectorTypes) \cup
         (IF "CRYPTOPP_POWER8_AVAILABLE" \in a \/ Doxygen(a)
          THEN Plain({"uint64x2_p"}) ELSE {})
    ELSE {}

\* "ALTIVEC and above", closed by "#endif // POWER4 and above"
CoreSymbols(a) ==
    IF "CRYPTOPP_ALTIVEC_AVAILABLE" \in a \/ Doxygen(a) THEN Plain(CoreFunctions) ELSE {}

\* "POWER7/POWER4 load and store": an #if / #else outside the ALTIVEC block
MemSymbols(a) ==
    IF "CRYPTOPP_POWER7_AVAILABLE" \in a \/ Doxygen(a) THEN ExtendedMem ELSE BaselineMem

\* the two "POWER8 crypto" blocks
CryptoSymbols(a) ==
    IF "CRYPTOPP_POWER8_AVAILABLE" \in a \/ Doxygen(a) THEN Plain(CryptoFunctions) ELSE {}

HeaderSymbols(a) == TypeSymbols(a) \cup CoreSymbols(a) \cup MemSymbols(a) \cup CryptoSymbols(a)

Names(syms) == {s.name : s \in syms}

\* a call compiles when the function and the vector types of its signature exist
Callable(f, syms) == f \in Names(syms) /\ VectorTypes \subseteq Names(syms)

-----------------------------------------------------------------------------
(* State *)

NoCall == [how |-> "none", by |-> "none"]

\* the caller's buffer: byte a of the aligned blocks holds 255 - a
InitialMem == [a \in 0 .. (NumBlocks * VecLen - 1) |-> 255 - a]

NoPrev == [op |-> "none", cnt |-> 0, addr |-> 0, va |-> ZeroVec, vb |-> ZeroVec,
           vout |-> ZeroVec, mem |-> InitialMem]

Last == [op |-> op, cnt |-> cnt, addr |-> addr, va |-> va, vb |-> vb,
         vout |-> vout, mem |-> mem]

\* the translation unit before the preprocessor has read the header
InitWith(builds) ==
    /\ macros \in builds
    /\ avail = {}
    /\ symbols = {}
    /\ pc = "cpp"
    /\ mem = InitialMem
    /\ op = "none"
    /\ cnt = 0
    /\ addr = 0
    /\ va = ZeroVec
    /\ vb = ZeroVec
    /\ vout = ZeroVec
    /\ ret = NoCall
    /\ prev = NoPrev

\* #include "ppc-simd.h": the gate, then the conditional blocks
IncludeHeader ==
    /\ pc = "cpp"
    /\ avail' = Gate(macros)
    /\ symbols' = HeaderSymbols(Gate(macros))
    /\ pc' = "ready"
    /\ UNCHANGED <<macros, mem, op, cnt, addr, va, vb, vout, ret, prev>>

\* The caller makes a first call on its own inputs and may continue it with a
\* second call: a core operation takes the first one's result as first operand,
\* a memory operation works on the memory the first one left.
Sources ==
    IF op = "none" THEN {"fresh"}
    ELSE IF prev.op = "none" THEN {"chain"}
    ELSE {}

FirstOperands(s) == IF s = "chain" THEN {vout} ELSE VecInputs

PrevFor(s) == IF s = "chain" THEN Last ELSE NoPrev

-----------------------------------------------------------------------------
(* Calls of the core vector operations *)

CallReverse ==
    /\ pc = "ready"
    /\ Callable("Reverse", symbols)
    /\ \E s \in Sources : \E a \in FirstOperands(s) :
        /\ op' = "Reverse"
        /\ va' = a
        /\ vb' = ZeroVec
        /\ cnt' = 0
        /\ vout' = Reverse(a)
        /\ prev' = PrevFor(s)
    /\ UNCHANGED <<macros, avail, symbols, pc, ret, mem, addr>>

CallShiftLeft1 ==
    /\ pc = "ready"
    /\ Callable("VectorShiftLeft", symbols)
    /\ \E s \in Sources : \E a \in FirstOperands(s) : \E C \in ShiftCounts :
        /\ op' = "VectorShiftLeft1"
        /\ va' = a
        /\ vb' = ZeroVec
        /\ cnt' = C
        /\ vout' = VectorShiftLeft1(C, a, LittleEndian(avail))
        /\ prev' = PrevFor(s)
    /\ UNCHANGED <<macros, avail, symbols, pc, ret, mem, addr>>

CallShiftRight1 ==
    /\ pc = "ready"
    /\ Callable("VectorShiftRight", symbols)
    /\ \E s \in Sources : \E a \in FirstOperands(s) : \E C \in ShiftCounts :
        /\ op' = "VectorShiftRight1"
        /\ va' = a
        /\ vb' = ZeroVec
        /\ cnt' = C
        /\ vout' = VectorShiftRight1(C, a, LittleEndian(avail))
        /\ prev' = PrevFor(s)
    /\ UNCHANGED <<macros, avail, symbols, pc, ret, mem, addr>>

CallShiftLeft2 ==
    /\ pc = "ready"
    /\ Callable("VectorShiftLeft", symbols)
    /\ \E s \in Sources : \E a \in FirstOperands(s) : \E b \in VecInputs :
       \E C \in ShiftCounts :
        /\ op' = "VectorShiftLeft2"
        /\ va' = a
        /\ vb' = b
        /\ cnt' = C
        /\ vout' = VectorShiftLeft2(C, a, b, LittleEndian(avail))
        /\ prev' = PrevFor(s)
    /\ UNCHANGED <<macros, avail, symbols, pc, ret, mem, addr>>

CallShiftRight2 ==
    /\ pc = "ready"
    /\ Callable("VectorShiftRight", symbols)
    /\ \E s \in Sources : \E a \in FirstOperands(s) : \E b \in VecInputs :
       \E C \in ShiftCounts :
        /\ op' = "VectorShiftRight2"
        /\ va' = a
        /\ vb' = b
        /\ cnt' = C
        /\ vout' = VectorShiftRight2(C, a, b, LittleEndian(avail))
        /\ prev' = PrevFor(s)
    /\ UNCHANGED <<macros, avail, symbols, pc, ret, mem, addr>>

\* builds in which the core operations exist, on either byte order
CoreBuilds ==
    {{"__ALTIVEC__", "CRYPTOPP_ALTIVEC_AVAILABLE"} \cup e :
        e \in SUBSET {"CRYPTOPP_LITTLE_ENDIAN"}}

Init == InitWith(CoreBuilds)

Next ==
    \/ IncludeHeader
    \/ CallReverse
    \/ CallShiftLeft1
    \/ CallShiftRight1
    \/ CallShiftLeft2
    \/ CallShiftRight2

Spec == Init /\ [][Next]_vars

-----------------------------------------------------------------------------
(* Calls of the memory access operations *)

\* the addresses of a 16-byte window in the buffer, one per alignment 0..15
Addrs == {VecLen + k : k \in Lanes}

Extended(syms) == ExtendedMem \subseteq syms

Xlc(a) == "CRYPTOPP_XLC_VERSION" \in a

CallVectorLoad ==
    /\ pc = "ready"
    /\ Callable("VectorLoad", symbols)
    /\ \E s \in Sources : \E src \in Addrs :
       \E r \in (IF Extended(symbols)
                 THEN {VectorLoadExtended(mem, src, Xlc(avail))}
                 ELSE VectorLoadBaseline(mem, src, vout)) :
        /\ op' = "VectorLoad"
        /\ addr' = src
        /\ va' = ZeroVec
        /\ vout' = r
        /\ prev' = PrevFor(s)
    /\ UNCHANGED <<macros, avail, symbols, pc, ret, mem, cnt, vb>>

CallVectorLoadBE ==
    /\ pc = "ready"
    /\ Callable("VectorLoadBE", symbols)
    /\ \E s \in Sources : \E src \in Addrs :
       \E r \in (IF Extended(symbols)
                 THEN {VectorLoadBEExtended(mem, src, Xlc(avail), LittleEndian(avail))}
                 ELSE VectorLoadBEBaseline(mem, src, vout, LittleEndian(avail))) :
        /\ op' = "VectorLoadBE"
        /\ addr' = src
        /\ va' = ZeroVec
        /\ vout' = r
        /\ prev' = PrevFor(s)
    /\ UNCHANGED <<macros, avail, symbols, pc, ret, mem, cnt, vb>>

CallVectorStore ==
    /\ pc = "ready"
    /\ Callable("VectorStore", symbols)
    /\ \E s \in Sources : \E dest \in Addrs : \E v \in VecInputs :
        /\ op' = "VectorStore"
        /\ addr' = dest
        /\ va' = v
        /\ mem' = IF Extended(symbols)
                  THEN VectorStoreExtended(mem, v, dest, Xlc(avail))
                  ELSE VectorStoreBaseline(mem, v, dest, LittleEndian(avail))
        /\ prev' = PrevFor(s)
    /\ UNCHANGED <<macros, avail, symbols, pc, ret, cnt, vb, vout>>

CallVectorStoreBE ==
    /\ pc = "ready"
    /\ Callable("VectorStoreBE", symbols)
    /\ \E s \in Sources : \E dest \in Addrs : \E v \in VecInputs :
        /\ op' = "VectorStoreBE"
        /\ addr' = dest
        /\ va' = v
        /\ mem' = IF Extended(symbols)
                  THEN VectorStoreBEExtended(mem, v, dest, Xlc(avail), LittleEndian(avail))
                  ELSE VectorStoreBEBaseline(mem, v, dest, LittleEndian(avail))
        /\ prev' = PrevFor(s)
    /\ UNCHANGED <<macros, avail, symbols, pc, ret, cnt, vb, vout>>

\* builds of either load/store tier, toolchain and byte order
MemBuilds ==
    {{"__ALTIVEC__", "CRYPTOPP_ALTIVEC_AVAILABLE"} \cup t \cup x \cup e :
        t \in {{}, {"_ARCH_PWR7", "CRYPTOPP_POWER7_AVAILABLE"}},
        x \in {{"CRYPTOPP_XLC_VERSION"}, {"CRYPTOPP_GCC_VERSION"}},
        e \in SUBSET {"CRYPTOPP_LITTLE_ENDIAN"}}

InitMem == InitWith(MemBuilds)

NextMem ==
    \/ IncludeHeader
    \/ CallVectorLoad
    \/ CallVectorLoadBE
    \/ CallVectorStore
    \/ CallVectorStoreBE

SpecMem == InitMem /\ [][NextMem]_vars

-----------------------------------------------------------------------------
(* Crypto acceleration operations *)

XlcBuiltin(f) ==
    CASE f = "VectorEncrypt"     -> "__vcipher"
      [] f = "VectorEncryptLast" -> "__vcipherlast"
      [] f = "VectorDecrypt"     -> "__vncipher"
      [] f = "VectorDecryptLast" -> "__vncipherlast"
      [] f = "VectorSHA256"      -> "__vshasigmaw"
      [] f = "VectorSHA512"      -> "__vshasigmad"

GccBuiltin(f) ==
    CASE f = "VectorEncrypt"     -> "__builtin_crypto_vcipher"
      [] f = "VectorEncryptLast" -> "__builtin_crypto_vcipherlast"
      [] f = "VectorDecrypt"     -> "__builtin_crypto_vncipher"
      [] f = "VectorDecryptLast" -> "__builtin_crypto_vncipherlast"
      [] f = "VectorSHA256"      -> "__builtin_crypto_vshasigmaw"
      [] f = "VectorSHA512"      -> "__builtin_crypto_vshasigmad"

\* CRYPTOPP_ASSERT(exp): a failed assertion ends the program
CRYPTOPP_ASSERT(exp) == IF exp THEN "continue" ELSE "terminate"

CryptoBodyNoElif(f, a) ==
    IF "CRYPTOPP_XLC_VERSION" \in a
    THEN [how |-> "returned", by |-> XlcBuiltin(f)]
    ELSE [how |-> "returned", by |-> GccBuiltin(f)]

\* the body the preprocessor leaves of each of the six functions:
\* #if XLC return built-in; #elif GCC return built-in; #else CRYPTOPP_ASSERT(0)
CryptoBody(f, a) ==
    IF "CRYPTOPP_XLC_VERSION" \in a
    THEN [how |-> "returned", by |-> XlcBuiltin(f)]
    ELSE IF "CRYPTOPP_GCC_VERSION" \in a
    THEN [how |-> "returned", by |-> GccBuiltin(f)]
    ELSE IF CRYPTOPP_ASSERT(FALSE) = "terminate"
    THEN [how |-> "terminated", by |-> "CRYPTOPP_ASSERT"]
    ELSE [how |-> "fell off the end", by |-> "none"]

CallCrypto ==
    /\ pc = "ready"
    /\ op = "none"
    /\ \E f \in CryptoFunctions : \E state \in VecInputs :
        /\ Callable(f, symbols)
        /\ op' = f
        /\ va' = state
        /\ ret' = CryptoBody(f, avail)
        /\ pc' = IF CryptoBody(f, avail).how = "returned" THEN "ready" ELSE "trapped"
        /\ prev' = NoPrev
    /\ UNCHANGED <<macros, avail, symbols, mem, cnt, addr, vb, vout>>

\* every combination of the macros the header reads
GateBuilds ==
    SUBSET (RequestMacros \cup ArchMacros \cup ToolchainMacros
            \cup {"CRYPTOPP_DOXYGEN_PROCESSING"})

InitGate == InitWith(GateBuilds)

NextGate ==
    \/ IncludeHeader
    \/ CallCrypto

SpecGate == InitGate /\ [][NextGate]_vars

-----------------------------------------------------------------------------
(* Properties *)

\* C1 (SpecMem): a native VectorLoad from the address a VectorStore has just
\* written returns the vector that was stored, at every alignment, on both
\* load/store tiers and both byte orders.
C1_StoreLoadRoundTrip ==
    (op = "VectorLoad" /\ prev.op = "VectorStore" /\ addr = prev.addr)
        => vout = prev.va

\* C2 (SpecMem): on a little-endian host, VectorLoadBE of a buffer equals
\* Reverse of the native VectorLoad of the same buffer, and a native VectorLoad
\* after VectorStoreBE(v) yields Reverse(v), on both load/store tiers.
C2_BEPathIsNativePlusReverse ==
    LittleEndian(avail) =>
        /\ (op = "VectorLoadBE" /\ prev.op = "VectorLoad" /\ addr = prev.addr)
              => vout = Reverse(prev.vout)
        /\ (op = "VectorLoad" /\ prev.op = "VectorStoreBE" /\ addr = prev.addr)
              => vout = Reverse(prev.va)

\* C3 (Spec): the one-vector shifts by zero bytes return their operand unchanged,
\* on big-endian and little-endian hosts alike.
C3_ZeroShiftIdentity ==
    (op \in {"VectorShiftLeft1", "VectorShiftRight1"} /\ cnt = 0) => vout = va

\* C4 (Spec): VectorShiftLeft<C>(a, b) returns, in the host's element order,
\* elements C..C+15 of the concatenation a followed by b, for every C in 0..15
\* on both byte orders.
C4_ShiftLeft2Logical ==
    op = "VectorShiftLeft2" => vout = [i \in Lanes |-> Cat(va, vb)[i + cnt]]

\* C5 (Spec): for C in 1..15, VectorShiftRight<C>(VectorShiftLeft<C>(v)) is v with
\* the C bytes the left shift dropped (elements 0..C-1) replaced by zero and
\* every other byte of v back in its original position.
C5_ShiftRoundTrip ==
    (op = "VectorShiftRight1" /\ prev.op = "VectorShiftLeft1"
        /\ cnt = prev.cnt /\ cnt \in 1 .. (VecLen - 1))
        => vout = [i \in Lanes |-> IF i < cnt THEN 0 ELSE prev.va[i]]

\* C6 (Spec): byte i of Reverse(v) is byte 15-i of v, Reverse(Reverse(v)) is v,
\* and the reversal masks inlined in the load/store paths equal Reverse's mask.
C6_ReverseInvolution ==
    /\ op = "Reverse" => \A i \in Lanes : vout[i] = va[(VecLen - 1) - i]
    /\ (op = "Reverse" /\ prev.op = "Reverse") => vout = prev.va
    /\ LoadBEMask = ReverseMask
    /\ StoreMask = ReverseMask
    /\ StoreBEMask = ReverseMask

\* C6 witness: Reverse applied twice to the first input vector, whose reversal
\* differs from it, gives that vector back.
C6_ReversedTwice ==
    /\ op = "Reverse"
    /\ prev.op = "Reverse"
    /\ prev.va = Pattern(0)
    /\ va = prev.vout
    /\ va # Pattern(0)
    /\ vout = Pattern(0)

\* C7 (Spec): VectorShiftRight<C>(a, b) is what its documentation states:
\* vec_sld(b, a, 16-C) on a big-endian host, vec_sld(a, b, C) on a little-endian
\* host, for every C in 0..15.
C7_ShiftRight2AsDocumented ==
    op = "VectorShiftRight2" =>
        vout = IF LittleEndian(avail)
               THEN VecSld(va, vb, cnt, TRUE)
               ELSE VecSld(vb, va, VecLen - cnt, FALSE)

\* C8 (SpecGate): in a build (no documentation pass), a tier whose architecture
\* macro is absent defines none of its symbols: without __ALTIVEC__ no vector
\* type, core function or load/store function; without _ARCH_PWR7 no extended
\* load/store function; without _ARCH_PWR8, _ARCH_PWR9, __CRYPTO and __CRYPTO__
\* no AES or SHA function.
C8_AbsentTierDefinesNothing ==
    (pc # "cpp" /\ ~Doxygen(macros)) =>
        /\ "__ALTIVEC__" \notin macros =>
             Names(symbols) \cap (VectorTypes \cup {"uint64x2_p"} \cup CoreFunctions
                                  \cup MemFunctions) = {}
        /\ "_ARCH_PWR7" \notin macros => symbols \cap ExtendedMem = {}
        /\ ({"_ARCH_PWR8", "_ARCH_PWR9", "__CRYPTO", "__CRYPTO__"} \cap macros = {})
             => Names(symbols) \cap CryptoFunctions = {}

\* C9 (SpecGate): after the gate, in a build (no documentation pass),
\* CRYPTOPP_POWER8_AVAILABLE defined implies CRYPTOPP_POWER7_AVAILABLE defined,
\* which implies CRYPTOPP_ALTIVEC_AVAILABLE defined, and no crypto function is
\* defined where the vector types it uses are not.
C9_TiersOrdered ==
    (pc # "cpp" /\ ~Doxygen(macros)) =>
        /\ "CRYPTOPP_POWER8_AVAILABLE" \in avail => "CRYPTOPP_POWER7_AVAILABLE" \in avail
        /\ "CRYPTOPP_POWER7_AVAILABLE" \in avail => "CRYPTOPP_ALTIVEC_AVAILABLE" \in avail
        /\ (Names(symbols) \cap CryptoFunctions # {})
             => {"uint8x16_p", "uint32x4_p", "uint64x2_p"} \subseteq Names(symbols)

\* C10 (SpecGate): a call of any of the six crypto operations in a build that
\* defines neither CRYPTOPP_XLC_VERSION nor CRYPTOPP_GCC_VERSION reaches the
\* assertion and ends the program; it returns no value.
C10_MismatchIsFatal ==
    (op \in CryptoFunctions
        /\ "CRYPTOPP_XLC_VERSION" \notin avail /\ "CRYPTOPP_GCC_VERSION" \notin avail)
        => (pc = "trapped" /\ ret.how = "terminated" /\ ret.by = "CRYPTOPP_ASSERT")

\* C10 witness: VectorSHA512 called in a POWER8 build of neither toolchain has
\* ended the program.
C10_TrappedCall ==
    /\ op = "VectorSHA512"
    /\ "CRYPTOPP_POWER8_AVAILABLE" \in avail
    /\ ~Doxygen(avail)
    /\ "CRYPTOPP_XLC_VERSION" \notin avail
    /\ "CRYPTOPP_GCC_VERSION" \notin avail
    /\ pc = "trapped"

\* C11 (SpecMem): on the baseline tier VectorLoad(src) returns the sixteen bytes
\* src[0..15] in order, the aligned read or the permuted low/high blocks, at
\* every alignment; no call ends without returning that value.
C11_BaselineLoadReturnsBytes ==
    (op = "VectorLoad" /\ ~Extended(symbols))
        => /\ vout = VectorLoadData(mem, addr)
           /\ vout = [i \in Lanes |-> mem[addr + i]]

====
